---- MODULE Spec2Model ----
(***************************************************************************)
(* State-machine model of update_movies_index.py: the bencode decoder      *)
(* (_bdecode), decode_torrent_and_infohash, magnet_from_info,              *)
(* torrent_file_list, load_torrents and match_movie_to_torrent.            *)
(*                                                                         *)
(* Bytes and text are sequences of one-character strings.  A decoded value *)
(* is a record tagged by its Python type:                                  *)
(*   int   [t |-> "int",   n |-> 5]                                        *)
(*   bytes [t |-> "bytes", b |-> <<"a", "b">>]                             *)
(*   list  [t |-> "list",  l |-> <<v1, v2>>]                               *)
(*   dict  [t |-> "dict",  d |-> <<[k |-> key, v |-> value], ...>>]        *)
(* A dict keeps its entries in insertion order, one entry per key.         *)
(***************************************************************************)
EXTENDS Integers, Sequences, FiniteSets, TLC

VARIABLES
    data,           \* _bdecode: the buffer being decoded
    i,              \* _bdecode: the current offset
    capture_info,   \* _bdecode: capture_info of the outermost call
    stack,          \* _bdecode: the active list/dict calls, outermost first
    st,             \* "idle" | "run" | "ok" | "err": state of the outermost call
    err,            \* exception class raised, "" if none
    out,            \* (value, next_index, info_slice) returned by the outermost call
    ret,            \* history: (start, next, value) of the latest return of any call
    spans,          \* history: every dict value stored, with its offsets
    pc,             \* load_torrents: "idle" | "loop" | "try" | "done"
    batch,          \* load_torrents: the buffers of the files rglob has yielded
    index,          \* load_torrents: index
    warnings,       \* load_torrents: the files logged by the except clause
    decoded,        \* history: per file, did decode_torrent_and_infohash return
    args,           \* arguments of the function called on its own
    result          \* its return value

decVars == <<data, i, capture_info, stack, st, err, out, ret, spans>>
loadVars == <<pc, batch, index, warnings, decoded>>
callVars == <<args, result>>

vars == <<data, i, capture_info, stack, st, err, out, ret, spans,
          pc, batch, index, warnings, decoded, args, result>>

----------------------------------------------------------------------------
(* Bounds of the model *)

MaxLen == 3         \* every buffer over Alphabet up to this length is decoded
MaxBatch == 2       \* files one run of load_torrents finds
MaxTiers == 2       \* elements of an announce-list
MaxTorrents == 2    \* records handed to match_movie_to_torrent

----------------------------------------------------------------------------
(* Python bytes primitives *)

Digits == {"0", "1", "2", "3", "4", "5", "6", "7", "8", "9"}

DigitVal(c) ==
    CASE c = "0" -> 0 [] c = "1" -> 1 [] c = "2" -> 2 [] c = "3" -> 3
      [] c = "4" -> 4 [] c = "5" -> 5 [] c = "6" -> 6 [] c = "7" -> 7
      [] c = "8" -> 8 [] c = "9" -> 9

MinOf(S) == CHOOSE x \in S : \A y \in S : x <= y

\* s[a:b] for 0 <= a: clamped to the buffer, empty when a >= b
Slice(s, a, b) ==
    LET hi == IF b < Len(s) THEN b ELSE Len(s)
    IN  IF a >= hi THEN <<>> ELSE SubSeq(s, a + 1, hi)

\* s.index(c, from): the first offset >= from holding c; -1 stands for ValueError
IndexFrom(s, c, from) ==
    LET J == {j \in from .. (Len(s) - 1) : s[j + 1] = c}
    IN  IF J = {} THEN -1 ELSE MinOf(J)

AllDigits(s) == s # <<>> /\ \A k \in 1 .. Len(s) : s[k] \in Digits

RECURSIVE NatOf(_)
NatOf(s) ==
    IF s = <<>> THEN 0
    ELSE NatOf(SubSeq(s, 1, Len(s) - 1)) * 10 + DigitVal(s[Len(s)])

\* int(s) on bytes made of digits and signs: ok = FALSE stands for ValueError
PyInt(s) ==
    IF AllDigits(s) THEN [ok |-> TRUE, n |-> NatOf(s)]
    ELSE IF Len(s) >= 2 /\ s[1] = "-" /\ AllDigits(Tail(s))
         THEN [ok |-> TRUE, n |-> 0 - NatOf(Tail(s))]
    ELSE IF Len(s) >= 2 /\ s[1] = "+" /\ AllDigits(Tail(s))
         THEN [ok |-> TRUE, n |-> NatOf(Tail(s))]
    ELSE [ok |-> FALSE, n |-> 0]

----------------------------------------------------------------------------
(* Decoded values *)

NoneV == [t |-> "none"]
IntV(n) == [t |-> "int", n |-> n]
BytesV(b) == [t |-> "bytes", b |-> b]
ListV(l) == [t |-> "list", l |-> l]
DictV(d) == [t |-> "dict", d |-> d]

DictHas(d, k) == \E x \in 1 .. Len(d) : d[x].k = k

\* d.get(k)
DictGet(d, k) ==
    IF DictHas(d, k) THEN d[CHOOSE x \in 1 .. Len(d) : d[x].k = k].v ELSE NoneV

\* d[k] = v: a key already present keeps its place and takes the new value
DictSet(d, k, v) ==
    IF DictHas(d, k)
    THEN [x \in 1 .. Len(d) |-> IF d[x].k = k THEN [k |-> k, v |-> v] ELSE d[x]]
    ELSE Append(d, [k |-> k, v |-> v])

\* Optional[bytes]
NoSlice == [some |-> FALSE, b |-> <<>>]
SomeSlice(b) == [some |-> TRUE, b |-> b]

\* Python's `a or b` on Optional[bytes]: None and b"" are falsy
FirstTruthy(a, b) == IF a.some /\ a.b # <<>> THEN a ELSE b

\* Variant with the operands swapped: the latest nested capture wins
LastTruthy(a, b) == IF b.some /\ b.b # <<>> THEN b ELSE a

\* info_slice = info_slice or info_sub
MergeSlice(info_slice, info_sub) == FirstTruthy(info_slice, info_sub)

INFO == <<"i", "n", "f", "o">>

\* Variant keeping an earlier capture instead of the direct key's value
KeepEarlierSlice(info_slice, buf, val_start, val_end) ==
    FirstTruthy(info_slice, SomeSlice(Slice(buf, val_start, val_end)))

\* info_slice = data[val_start:val_end]
CaptureSlice(info_slice, buf, val_start, val_end) ==
    SomeSlice(Slice(buf, val_start, val_end))

\* Variant that forgets where the string starts
BytesEndNoStart(start, length) == length

\* end = start + length
BytesEnd(start, length) == start + length

----------------------------------------------------------------------------
(* _bdecode as a stack machine: one frame per active list or dict call *)

Frame(kind, cap, start) ==
    [kind |-> kind, cap |-> cap, start |-> start, lst |-> <<>>, d |-> <<>>,
     info_slice |-> NoSlice, phase |-> IF kind = "d" THEN "key" ELSE "elem",
     k |-> <<>>, val_start |-> 0]

Top == stack[Len(stack)]
Below(stk) == SubSeq(stk, 1, Len(stk) - 1)

NoOut == [val |-> NoneV, next |-> 0, info |-> NoSlice]
NoRet == [start |-> -1, next |-> 0, val |-> NoneV]

\* at a while-loop head of the innermost call
AtLoopHead == stack # <<>> /\ Top.phase \in {"elem", "key"}

\* the next thing to run is a call _bdecode(data, i, CallCapture)
AtCall ==
    /\ st = "run"
    /\ AtLoopHead => Slice(data, i, i + 1) # <<"e">>

\* capture_info argument of the pending call
CallCapture ==
    IF stack = <<>> THEN capture_info
    ELSE IF Top.kind = "l" THEN Top.cap
    ELSE IF Top.phase = "key" THEN FALSE
    ELSE IF Top.cap /\ Top.k = INFO THEN FALSE
    ELSE Top.cap

\* The caller stk receives (v, nxt, sub) from the call it made.
Deliver(stk, v, nxt, sub) ==
    IF stk = <<>>
    THEN [stack |-> stk, i |-> nxt, st |-> "ok", err |-> "",
          out |-> [val |-> v, next |-> nxt, info |-> sub], spans |-> spans]
    ELSE
    LET f == stk[Len(stk)]
        put(g, log) == [stack |-> Append(Below(stk), g), i |-> nxt, st |-> "run",
                        err |-> "", out |-> NoOut, spans |-> log]
        entry == [depth |-> Len(stk), k |-> f.k, s |-> f.val_start, e |-> nxt,
                  cap |-> f.cap]
    IN  IF f.kind = "l"
        THEN put([f EXCEPT !.lst = Append(@, v),
                           !.info_slice = MergeSlice(@, sub)], spans)
        ELSE IF f.phase = "key"
        THEN IF v.t # "bytes"
             THEN [stack |-> stk, i |-> nxt, st |-> "err", err |-> "BencodeError",
                   out |-> NoOut, spans |-> spans]
             ELSE put([f EXCEPT !.phase = "val", !.k = v.b, !.val_start = nxt],
                      spans)
        ELSE IF f.cap /\ f.k = INFO
        THEN put([f EXCEPT !.phase = "key", !.d = DictSet(@, f.k, v),
                           !.info_slice = CaptureSlice(@, data, f.val_start, nxt)],
                 Append(spans, entry))
        ELSE put([f EXCEPT !.phase = "key", !.d = DictSet(@, f.k, v),
                           !.info_slice = MergeSlice(@, sub)],
                 Append(spans, entry))

Return(stk, start, v, nxt, sub) ==
    LET r == Deliver(stk, v, nxt, sub)
    IN  /\ stack' = r.stack
        /\ i' = r.i
        /\ st' = r.st
        /\ err' = r.err
        /\ out' = r.out
        /\ spans' = r.spans
        /\ ret' = [start |-> start, next |-> nxt, val |-> v]

Raise(cls) ==
    /\ st' = "err"
    /\ err' = cls
    /\ UNCHANGED <<stack, i, out, ret, spans>>

\* if i >= len(data): raise BencodeError("Unexpected end of data")
BdEndOfData ==
    /\ AtCall
    /\ i >= Len(data)
    /\ Raise("BencodeError")
    /\ UNCHANGED <<data, capture_info, pc, batch, index, warnings, decoded, args, result>>

\* c == b"i"
BdInteger ==
    /\ AtCall
    /\ Slice(data, i, i + 1) = <<"i">>
    /\ LET j == IndexFrom(data, "e", i)
           num == PyInt(Slice(data, i + 1, j))
       IN  IF j < 0 \/ ~num.ok
           THEN Raise("ValueError")
           ELSE Return(stack, i, IntV(num.n), j + 1, NoSlice)
    /\ UNCHANGED <<data, capture_info, pc, batch, index, warnings, decoded, args, result>>

\* c == b"l": enter the list loop
BdList ==
    /\ AtCall
    /\ Slice(data, i, i + 1) = <<"l">>
    /\ stack' = Append(stack, Frame("l", CallCapture, i))
    /\ i' = i + 1
    /\ UNCHANGED <<data, capture_info, st, err, out, ret, spans>>
    /\ UNCHANGED <<pc, batch, index, warnings, decoded, args, result>>

\* c == b"d": enter the dict loop
BdDict ==
    /\ AtCall
    /\ Slice(data, i, i + 1) = <<"d">>
    /\ stack' = Append(stack, Frame("d", CallCapture, i))
    /\ i' = i + 1
    /\ UNCHANGED <<data, capture_info, st, err, out, ret, spans>>
    /\ UNCHANGED <<pc, batch, index, warnings, decoded, args, result>>

\* the list loop sees b"e": return lst, i + 1, info_slice
BdListEnd ==
    /\ st = "run"
    /\ AtLoopHead
    /\ Top.kind = "l"
    /\ Slice(data, i, i + 1) = <<"e">>
    /\ Return(Below(stack), Top.start, ListV(Top.lst), i + 1, Top.info_slice)
    /\ UNCHANGED <<data, capture_info, pc, batch, index, warnings, decoded, args, result>>

\* the dict loop sees b"e": return d, i + 1, info_slice
BdDictEnd ==
    /\ st = "run"
    /\ AtLoopHead
    /\ Top.kind = "d"
    /\ Slice(data, i, i + 1) = <<"e">>
    /\ Return(Below(stack), Top.start, DictV(Top.d), i + 1, Top.info_slice)
    /\ UNCHANGED <<data, capture_info, pc, batch, index, warnings, decoded, args, result>>

\* b"0" <= c <= b"9"
BdBytes ==
    /\ AtCall
    /\ i < Len(data)
    /\ data[i + 1] \in Digits
    /\ LET j == IndexFrom(data, ":", i)
           length == PyInt(Slice(data, i, j))
           start == j + 1
           end == BytesEnd(start, length.n)
       IN  IF j < 0 \/ ~length.ok
           THEN Raise("ValueError")
           ELSE Return(stack, i, BytesV(Slice(data, start, end)), end, NoSlice)
    /\ UNCHANGED <<data, capture_info, pc, batch, index, warnings, decoded, args, result>>

\* else: raise BencodeError("Invalid bencode prefix")
BdInvalidPrefix ==
    /\ AtCall
    /\ i < Len(data)
    /\ data[i + 1] \notin (Digits \cup {"i", "l", "d"})
    /\ Raise("BencodeError")
    /\ UNCHANGED <<data, capture_info, pc, batch, index, warnings, decoded, args, result>>

BdStep ==
    \/ BdEndOfData
    \/ BdInteger
    \/ BdList
    \/ BdDict
    \/ BdListEnd
    \/ BdDictEnd
    \/ BdBytes
    \/ BdInvalidPrefix

----------------------------------------------------------------------------
(* Text: str values are sequences of characters.  "xFF" is a byte that is   *)
(* not valid UTF-8, "uFFFD" the replacement character; every other byte of  *)
(* the model is ASCII.                                                      *)

\* b.decode("utf-8", errors="replace")
DecodeReplace(b) == [x \in 1 .. Len(b) |-> IF b[x] = "xFF" THEN "uFFFD" ELSE b[x]]

\* b.decode("utf-8", "ignore")
DecodeIgnore(b) == SelectSeq(b, LAMBDA c : c # "xFF")

\* Optional[str]
NoneStr == [some |-> FALSE, s |-> <<>>]
SomeStr(s) == [some |-> TRUE, s |-> s]
Truthy(o) == o.some /\ o.s # <<>>

RECURSIVE Flatten(_)
Flatten(ss) == IF ss = <<>> THEN <<>> ELSE Head(ss) \o Flatten(Tail(ss))

RECURSIVE Join(_, _)
Join(sep, ss) ==
    IF ss = <<>> THEN <<>>
    ELSE IF Len(ss) = 1 THEN ss[1]
    ELSE ss[1] \o sep \o Join(sep, Tail(ss))

StartsWith(s, p) == Len(s) >= Len(p) /\ SubSeq(s, 1, Len(p)) = p

\* s.split(sep, 1)[1] for an s that contains sep
AfterFirst(s, sep) == Slice(s, IndexFrom(s, sep, 0) + 1, Len(s))

\* The characters urllib.parse.quote escapes, with their escapes; letters,
\* digits, "_", ".", "-", "~" and the hexdigest tokens are left as they are.
PctCode ==
    [c \in {":", "/", " ", "&", "=", "?", "%", "uFFFD"} |->
        CASE c = ":" -> <<"%", "3", "A">>
          [] c = "/" -> <<"%", "2", "F">>
          [] c = " " -> <<"%", "2", "0">>
          [] c = "&" -> <<"%", "2", "6">>
          [] c = "=" -> <<"%", "3", "D">>
          [] c = "?" -> <<"%", "3", "F">>
          [] c = "%" -> <<"%", "2", "5">>
          [] c = "uFFFD" -> <<"%", "E", "F", "%", "B", "F", "%", "B", "D">>]

\* quote(s, safe=safe)
Quote(s, safe) ==
    Flatten([x \in 1 .. Len(s) |->
        IF s[x] \in safe \/ s[x] \notin DOMAIN PctCode THEN <<s[x]>> ELSE PctCode[s[x]]])

\* quote(s): "/" is safe by default
QuoteDefault(s) == Quote(s, {"/"})

\* hashlib.sha1(b).hexdigest() and hashlib.sha256(b).hexdigest(): one token
\* that names the algorithm and the bytes hashed (distinct inputs, distinct tokens)
Sha1Hex(b) == <<"sha1(" \o ToString(b) \o ")">>
Sha256Hex(b) == <<"sha256(" \o ToString(b) \o ")">>

kName == <<"n", "a", "m", "e">>
kLength == <<"l", "e", "n", "g", "t", "h">>
kFiles == <<"f", "i", "l", "e", "s">>
kPath == <<"p", "a", "t", "h">>
kPieces == <<"p", "i", "e", "c", "e", "s">>
kFileTree == <<"f", "i", "l", "e", " ", "t", "r", "e", "e">>
kMetaVersion == <<"m", "e", "t", "a", " ", "v", "e", "r", "s", "i", "o", "n">>
kAnnounce == <<"a", "n", "n", "o", "u", "n", "c", "e">>
kAnnounceList == kAnnounce \o <<"-", "l", "i", "s", "t">>

BTIH == <<"b", "t", "i", "h", ":">>
BTMH == <<"b", "t", "m", "h", ":">>
URN == <<"u", "r", "n", ":">>
MAGNET == <<"m", "a", "g", "n", "e", "t", ":", "?">>

----------------------------------------------------------------------------
(* decode_torrent_and_infohash, after its call of _bdecode *)

\* Variant: any "meta version" entry marks the torrent as v2
IsV2AnyVersion(info) == info.t = "dict" /\ DictHas(info.d, kMetaVersion)

\* isinstance(info, dict) and isinstance(info.get(b"meta version"), int)
\*     and info.get(b"meta version") == 2
IsV2(info) ==
    /\ info.t = "dict"
    /\ DictGet(info.d, kMetaVersion).t = "int"
    /\ DictGet(info.d, kMetaVersion).n = 2

\* name: info[b"name"] decoded when info is a dict and the name is bytes
InfoName(info) ==
    IF info.t = "dict" /\ DictGet(info.d, kName).t = "bytes"
    THEN SomeStr(DecodeReplace(DictGet(info.d, kName).b))
    ELSE NoneStr

\* (val, idx, info_slice) = o; stem = torrent_path.stem
decode_torrent_and_infohash(o, stem) ==
    IF o.val.t # "dict"
    THEN [raised |-> TRUE, val |-> o.val, infohash |-> NoneStr, name |-> <<>>]
    ELSE
    LET info == DictGet(o.val.d, INFO)
        name == InfoName(info)
        disp == IF Truthy(name) THEN name.s ELSE stem
        infohash ==
            IF ~o.info.some THEN NoneStr
            ELSE IF IsV2(info)
            THEN SomeStr(BTMH \o <<"1", "2", "2", "0">> \o Sha256Hex(o.info.b))
            ELSE SomeStr(BTIH \o Sha1Hex(o.info.b))
    IN  [raised |-> FALSE, val |-> o.val, infohash |-> infohash, name |-> disp]

----------------------------------------------------------------------------
(* magnet_from_info *)

\* trackers: the bytes leaves of announce-list, one level of nesting flattened
FlattenTrackers(ann_list) ==
    Flatten([x \in 1 .. Len(ann_list) |->
        IF ann_list[x].t = "list"
        THEN SelectSeq(ann_list[x].l, LAMBDA v : v.t = "bytes")
        ELSE IF ann_list[x].t = "bytes" THEN <<ann_list[x]>>
        ELSE <<>>])

\* the dedupe loop: params and seen after the trackers ts
RECURSIVE DedupeInto(_, _, _)
DedupeInto(params, seen, ts) ==
    IF ts = <<>> THEN params
    ELSE LET s == DecodeIgnore(Head(ts).b)
         IN  IF s # <<>> /\ s \notin seen
             THEN DedupeInto(Append(params, <<"t", "r", "=">> \o QuoteDefault(s)),
                             seen \cup {s}, Tail(ts))
             ELSE DedupeInto(params, seen, Tail(ts))

\* Variant: dn is written after the trackers
ParamsDnLast(xt, display_name, ann, ann_list) ==
    LET p1 == <<<<"x", "t", "=">> \o Quote(xt, {":"})>>
        p2 == IF ann.t = "bytes"
              THEN Append(p1, <<"t", "r", "=">> \o QuoteDefault(DecodeIgnore(ann.b)))
              ELSE p1
        p3 == IF ann_list.t = "list"
              THEN DedupeInto(p2, {}, FlattenTrackers(ann_list.l))
              ELSE p2
    IN  IF display_name # <<>>
        THEN Append(p3, <<"d", "n", "=">> \o QuoteDefault(display_name))
        ELSE p3

\* params, from the xt parameter to the last tracker
MagnetParams(xt, display_name, ann, ann_list) ==
    LET p1 == <<<<"x", "t", "=">> \o Quote(xt, {":"})>>
        p2 == IF display_name # <<>>
              THEN Append(p1, <<"d", "n", "=">> \o QuoteDefault(display_name))
              ELSE p1
        p3 == IF ann.t = "bytes"
              THEN Append(p2, <<"t", "r", "=">> \o QuoteDefault(DecodeIgnore(ann.b)))
              ELSE p2
    IN  IF ann_list.t = "list"
        THEN DedupeInto(p3, {}, FlattenTrackers(ann_list.l))
        ELSE p3

\* torrent_dict: the entries of the top-level dict; infohash: Optional[str]
magnet_from_info(torrent_dict, infohash, display_name) ==
    IF ~Truthy(infohash) THEN NoneStr
    ELSE IF ~(StartsWith(infohash.s, BTIH) \/ StartsWith(infohash.s, BTMH))
    THEN NoneStr
    ELSE
    LET xt == IF StartsWith(infohash.s, BTIH)
              THEN URN \o BTIH \o AfterFirst(infohash.s, ":")
              ELSE URN \o BTMH \o AfterFirst(infohash.s, ":")
    IN  SomeStr(MAGNET \o Join(<<"&">>,
            MagnetParams(xt, display_name, DictGet(torrent_dict, kAnnounce),
                         DictGet(torrent_dict, kAnnounceList))))

----------------------------------------------------------------------------
(* torrent_file_list *)

RECURSIVE SplitOn(_, _)
SplitOn(s, sep) ==
    LET j == IndexFrom(s, sep, 0)
    IN  IF j < 0 THEN <<s>>
        ELSE <<Slice(s, 0, j)>> \o SplitOn(Slice(s, j + 1, Len(s)), sep)

\* Path(s).name: the last component, "" when there is none
PathName(s) ==
    LET parts == SelectSeq(SplitOn(s, "/"), LAMBDA c : c # <<>> /\ c # <<".">>)
    IN  IF parts = <<>> THEN <<>> ELSE parts[Len(parts)]

\* Path(*segs): a segment that starts with "/" replaces what precedes it
RECURSIVE PathJoin(_, _)
PathJoin(acc, segs) ==
    IF segs = <<>> THEN acc
    ELSE LET g == Head(segs)
         IN  PathJoin(IF acc = <<>> \/ (g # <<>> /\ g[1] = "/") THEN g
                      ELSE acc \o <<"/">> \o g, Tail(segs))

\* b"" in v: ok = FALSE stands for the TypeError of an int operand
HasEmptyKey(v) ==
    CASE v.t = "dict" -> [ok |-> TRUE, found |-> DictHas(v.d, <<>>)]
      [] v.t = "list" -> [ok |-> TRUE, found |-> \E x \in 1 .. Len(v.l) : v.l[x] = BytesV(<<>>)]
      [] v.t = "bytes" -> [ok |-> TRUE, found |-> TRUE]
      [] OTHER -> [ok |-> FALSE, found |-> FALSE]

\* walk(tree): the leaves added to names, or the exception of an entry
RECURSIVE WalkTree(_)
WalkTree(tree) ==
    LET sub(x) == IF HasEmptyKey(tree[x].v).ok /\ ~HasEmptyKey(tree[x].v).found
                     /\ tree[x].v.t = "dict"
                  THEN WalkTree(tree[x].v.d)
                  ELSE [raised |-> FALSE, names |-> {}]
    IN  [raised |-> \E x \in 1 .. Len(tree) :
                        ~HasEmptyKey(tree[x].v).ok \/ sub(x).raised,
         names |-> {DecodeIgnore(tree[x].k) : x \in {y \in 1 .. Len(tree) :
                        HasEmptyKey(tree[y].v).ok /\ HasEmptyKey(tree[y].v).found}}
                   \cup UNION {sub(x).names : x \in 1 .. Len(tree)}]

\* single-file mode: the names it adds
SingleFileNames(info) ==
    IF DictHas(info, kLength) /\ DictHas(info, kName)
       /\ DictGet(info, kName).t = "bytes"
    THEN {PathName(DecodeIgnore(DictGet(info, kName).b))}
    ELSE {}

\* multi-file mode: nm of one element of info[b"files"]
FileEntryName(f) ==
    IF f.t # "dict" \/ ~DictHas(f.d, kPath) THEN <<>>
    ELSE LET path == DictGet(f.d, kPath)
         IN  IF path.t = "list"
             THEN LET bs == SelectSeq(path.l, LAMBDA v : v.t = "bytes")
                      segs == [x \in 1 .. Len(bs) |-> DecodeIgnore(bs[x].b)]
                  IN  IF segs = <<>> THEN <<>> ELSE PathName(PathJoin(<<>>, segs))
             ELSE IF path.t = "bytes" THEN PathName(DecodeIgnore(path.b))
             ELSE <<>>

MultiFileNames(info) ==
    IF DictGet(info, kFiles).t = "list"
    THEN {FileEntryName(DictGet(info, kFiles).l[x]) :
              x \in 1 .. Len(DictGet(info, kFiles).l)} \ {<<>>}
    ELSE {}

\* v2 file tree: walk(info[b"file tree"])
FileTreeNames(info) ==
    IF DictGet(info, kFileTree).t = "dict"
    THEN WalkTree(DictGet(info, kFileTree).d)
    ELSE [raised |-> FALSE, names |-> {}]

\* torrent_dict: the entries of the top-level dict
torrent_file_list(torrent_dict) ==
    LET info == DictGet(torrent_dict, INFO)
    IN  IF info.t # "dict" THEN [raised |-> FALSE, names |-> {}]
        ELSE [raised |-> FileTreeNames(info.d).raised,
              names |-> SingleFileNames(info.d) \cup MultiFileNames(info.d)
                        \cup FileTreeNames(info.d).names]

----------------------------------------------------------------------------
(* str.lower and the substring test *)

LowerChar(c) ==
    CASE c = "A" -> "a" [] c = "B" -> "b" [] c = "C" -> "c" [] c = "F" -> "f"
      [] c = "G" -> "g" [] c = "X" -> "x" [] OTHER -> c

Lower(s) == [x \in 1 .. Len(s) |-> LowerChar(s[x])]

\* a in b
IsSubstring(a, b) ==
    \E o \in 0 .. (Len(b) - Len(a)) : Slice(b, o, o + Len(a)) = a

----------------------------------------------------------------------------
(* match_movie_to_torrent *)

NoMatch == [some |-> FALSE]
Match(t) == [some |-> TRUE, t |-> t]

\* torrent_name and torrent_name == dir_name
ExactName(dir_name, t) ==
    Lower(t.display_name) # <<>> /\ Lower(t.display_name) = dir_name

\* torrent_name and (torrent_name in dir_name or dir_name in torrent_name)
ContainsName(dir_name, t) ==
    /\ Lower(t.display_name) # <<>>
    /\ \/ IsSubstring(Lower(t.display_name), dir_name)
       \/ IsSubstring(dir_name, Lower(t.display_name))

\* any(dir_name in f.lower() for f in t["files"])
FileMatches(dir_name, t) == \E f \in t.files : IsSubstring(dir_name, Lower(f))

\* for t in torrents: if <hit>: return t -- hits: the positions that satisfy the test
FirstHit(torrents, hits) == Match(torrents[MinOf(hits)])

\* Variant: one loop that returns the first record any tier accepts
MatchSinglePass(name, torrents) ==
    LET dir_name == Lower(name)
        any == {x \in 1 .. Len(torrents) :
                    \/ ExactName(dir_name, torrents[x])
                    \/ ContainsName(dir_name, torrents[x])
                    \/ FileMatches(dir_name, torrents[x])}
    IN  IF any # {} THEN FirstHit(torrents, any) ELSE NoMatch

\* name = movie_dir.name
match_movie_to_torrent(name, torrents) ==
    LET dir_name == Lower(name)
        t1 == {x \in 1 .. Len(torrents) : ExactName(dir_name, torrents[x])}
        t2 == {x \in 1 .. Len(torrents) : ContainsName(dir_name, torrents[x])}
        t3 == {x \in 1 .. Len(torrents) : FileMatches(dir_name, torrents[x])}
    IN  IF t1 # {} THEN FirstHit(torrents, t1)
        ELSE IF t2 # {} THEN FirstHit(torrents, t2)
        ELSE IF t3 # {} THEN FirstHit(torrents, t3)
        ELSE NoMatch

----------------------------------------------------------------------------
(* load_torrents *)

\* torrent_path.stem of the n-th file found
Stem(n) == <<"t", CHOOSE c \in Digits : DigitVal(c) = n % 10>>

\* the body of the try block after _bdecode returned o, for the file p
TryBody(o, p) ==
    LET dec == decode_torrent_and_infohash(o, Stem(p))
        magnet == IF Truthy(dec.infohash)
                  THEN magnet_from_info(dec.val.d, dec.infohash, dec.name)
                  ELSE NoneStr
        files == torrent_file_list(dec.val.d)
    IN  IF dec.raised THEN [raised |-> TRUE, decoded |-> FALSE]
        ELSE IF files.raised THEN [raised |-> TRUE, decoded |-> TRUE]
        ELSE [raised |-> FALSE, decoded |-> TRUE,
              rec |-> [path |-> p, display_name |-> dec.name,
                       infohash |-> dec.infohash, magnet |-> magnet,
                       files |-> {Lower(f) : f \in files.names}]]

----------------------------------------------------------------------------
(* Inputs: the buffers, dicts and records the operations are run on *)

Alphabet == {"i", "l", "d", "e", "0", "1", ":", "-"}

ShortBuffers == UNION {[1 .. n -> Alphabet] : n \in 0 .. MaxLen}

\* bencodings, to write the buffers with
RECURSIVE Dec(_)
Dec(n) ==
    IF n < 10 THEN <<CHOOSE c \in Digits : DigitVal(c) = n>>
    ELSE Dec(n \div 10) \o <<CHOOSE c \in Digits : DigitVal(c) = n % 10>>
Bs(s) == Dec(Len(s)) \o <<":">> \o s
Bi(n) == <<"i">> \o Dec(n) \o <<"e">>
Bl(items) == <<"l">> \o Flatten(items) \o <<"e">>
Bd(items) == <<"d">> \o Flatten(items) \o <<"e">>

TorrentCorpus ==
    { \* single-file torrent with a tracker
      Bd(<<Bs(kAnnounce), Bs(<<"h", ":", "a">>),
           Bs(INFO), Bd(<<Bs(kLength), Bi(10), Bs(kName), Bs(<<"d", "/", "A", ".", "x">>)>>)>>),
      \* v2 torrent that also carries pieces
      Bd(<<Bs(INFO), Bd(<<Bs(kMetaVersion), Bi(2), Bs(kPieces), Bs(<<"p">>)>>)>>),
      \* meta version 1, meta version as bytes
      Bd(<<Bs(INFO), Bd(<<Bs(kMetaVersion), Bi(1)>>)>>),
      Bd(<<Bs(INFO), Bd(<<Bs(kMetaVersion), Bs(<<"2">>)>>)>>),
      \* an info key nested before, and after, the top-level one
      Bd(<<Bs(<<"a">>), Bd(<<Bs(INFO), Bi(1)>>), Bs(INFO), Bd(<<>>)>>),
      Bd(<<Bs(INFO), Bd(<<>>), Bs(<<"z">>), Bd(<<Bs(INFO), Bi(1)>>)>>),
      \* the info key twice in one dict
      Bd(<<Bs(INFO), Bi(1), Bs(INFO), Bd(<<Bs(kMetaVersion), Bi(2)>>)>>),
      \* info keys only below the top level, in a list and one after another
      Bd(<<Bs(<<"a">>), Bl(<<Bd(<<Bs(INFO), Bi(1)>>), Bd(<<Bs(INFO), Bi(2)>>)>>)>>),
      Bd(<<Bs(<<"a">>), Bd(<<Bs(INFO), Bi(1)>>), Bs(<<"b">>), Bd(<<Bs(INFO), Bi(2)>>)>>),
      \* no info key; info that is no dict
      Bd(<<Bs(<<"a">>), Bi(1)>>),
      Bd(<<Bs(INFO), Bi(2)>>),
      \* v2 file tree: a leaf below a directory
      Bd(<<Bs(INFO), Bd(<<Bs(kFileTree),
           Bd(<<Bs(<<"s">>), Bd(<<Bs(<<"F">>), Bd(<<Bs(<<>>), Bd(<<>>)>>)>>)>>)>>)>>),
      \* file tree entries that are an int, a list, bytes
      Bd(<<Bs(INFO), Bd(<<Bs(kFileTree), Bd(<<Bs(<<"a">>), Bi(1)>>)>>)>>),
      Bd(<<Bs(INFO), Bd(<<Bs(kFileTree),
           Bd(<<Bs(<<"a">>), Bl(<<>>), Bs(<<"b">>), Bs(<<"c">>)>>)>>)>>),
      \* multi-file torrent: path as a list, as bytes, as an int; an entry that is no dict
      Bd(<<Bs(INFO), Bd(<<Bs(kFiles), Bl(<<
           Bd(<<Bs(kPath), Bl(<<Bs(<<"d">>), Bs(<<"F">>)>>)>>),
           Bd(<<Bs(kPath), Bs(<<"x", "/", "G">>)>>),
           Bd(<<Bs(kPath), Bi(1)>>),
           Bi(1)>>)>>)>>),
      \* a name that is not valid UTF-8; an empty name
      Bd(<<Bs(INFO), Bd(<<Bs(kName), Bs(<<"a", "xFF">>)>>)>>),
      Bd(<<Bs(INFO), Bd(<<Bs(kLength), Bi(1), Bs(kName), Bs(<<>>)>>)>>),
      \* not a dict at the top level
      Bl(<<>>),
      <<"5", ":", "a", "b", "c", "d">>,
      \* malformed: truncated, unterminated, bad prefix, bad integer, int key
      <<"d">> \o Bs(INFO) \o <<"5", ":", "a", "b", "c", "d">>,
      <<"d">> \o Bs(INFO) \o Bi(1),
      <<"l", "2", ":", "a">>,
      <<"d", "-">>,
      <<"d">> \o Bs(INFO) \o <<"i", "e", "e">>,
      <<"d">> \o Bs(INFO) \o <<"1", "a", ":", "e">>,
      Bd(<<Bi(1), Bi(1)>>) }

\* trackers: TAx decodes to the text of TA
TA == <<"h", ":", "/", "a">>
TB == <<"h", ":", "/", "b">>
TAx == <<"h", "xFF", ":", "/", "a">>

Announces == {NoneV, BytesV(TA), BytesV(TB), BytesV(TAx), IntV(1)}

TierItems ==
    { ListV(<<BytesV(TA)>>), ListV(<<BytesV(TB)>>), ListV(<<BytesV(TB), BytesV(TA)>>),
      ListV(<<IntV(1), BytesV(TAx)>>), ListV(<<BytesV(<<>>)>>), BytesV(TA), IntV(7) }

AnnounceLists ==
    {NoneV, BytesV(TA)}
    \cup {ListV(l) : l \in UNION {[1 .. n -> TierItems] : n \in 0 .. MaxTiers}}

Infohashes ==
    { NoneStr, SomeStr(<<>>),
      SomeStr(BTIH \o <<"a", "1">>),
      SomeStr(BTMH \o <<"1", "2", "2", "0", "b", "2">>),
      SomeStr(<<"b", "t", "x", "x", ":", "c", "3">>),
      SomeStr(<<"b", "t", "i", "h">>) }

DisplayNames == {<<>>, <<"F", " ", "B">>, <<"a", "&", "t", "r", "=", "b">>}

TopDict(ann, ann_list) ==
    (IF ann = NoneV THEN <<>> ELSE <<[k |-> kAnnounce, v |-> ann]>>)
    \o (IF ann_list = NoneV THEN <<>> ELSE <<[k |-> kAnnounceList, v |-> ann_list]>>)

MagnetInputs ==
    {[torrent_dict |-> TopDict(a, l), infohash |-> h, display_name |-> n] :
        a \in Announces, l \in AnnounceLists, h \in Infohashes, n \in DisplayNames}

DirNames == {<<"A", "b">>, <<"b">>, <<>>}

RecordNames == {<<>>, <<"a", "b">>, <<"A", "B", "c">>, <<"b">>, <<"x">>}

RecordFiles == {{}, {<<"a", "b", ".", "f">>}, {<<"g">>, <<"x", "b">>}}

Record(p, n, f) ==
    [path |-> p, display_name |-> n, infohash |-> NoneStr, magnet |-> NoneStr,
     files |-> f]

MatchInputs ==
    {[name |-> dn, torrents |-> [x \in 1 .. Len(ns) |-> Record(x, ns[x], fs[x])]] :
        dn \in DirNames,
        <<ns, fs>> \in UNION {[1 .. n -> RecordNames] \X [1 .. n -> RecordFiles] :
                                n \in 0 .. MaxTorrents}}

----------------------------------------------------------------------------
(* load_torrents as steps around the decoder *)

\* for p in torrents_dir.rglob("*.torrent"): the next file, and _bdecode(raw, 0, True)
LtNextFile ==
    /\ pc = "loop"
    /\ Len(batch) < MaxBatch
    /\ \E raw \in TorrentCorpus :
        /\ batch' = Append(batch, raw)
        /\ data' = raw
    /\ i' = 0
    /\ capture_info' = TRUE
    /\ stack' = <<>>
    /\ st' = "run"
    /\ err' = ""
    /\ out' = NoOut
    /\ ret' = NoRet
    /\ spans' = <<>>
    /\ pc' = "try"
    /\ UNCHANGED <<index, warnings, decoded, args, result>>

\* the try block ran to its end: index.append({...})
LtAppend ==
    /\ pc = "try"
    /\ st = "ok"
    /\ ~TryBody(out, Len(batch)).raised
    /\ index' = Append(index, TryBody(out, Len(batch)).rec)
    /\ decoded' = Append(decoded, TRUE)
    /\ pc' = "loop"
    /\ UNCHANGED <<decVars, batch, warnings, args, result>>

\* except Exception: logging.warning(...), and on to the next file
LtWarn ==
    /\ pc = "try"
    /\ \/ st = "err"
       \/ st = "ok" /\ TryBody(out, Len(batch)).raised
    /\ warnings' = Append(warnings, Len(batch))
    /\ decoded' = Append(decoded, st = "ok" /\ TryBody(out, Len(batch)).decoded)
    /\ pc' = "loop"
    /\ UNCHANGED <<decVars, batch, index, args, result>>

\* the iterator is exhausted: return index
LtReturn ==
    /\ pc = "loop"
    /\ pc' = "done"
    /\ UNCHANGED <<decVars, batch, index, warnings, decoded, args, result>>

\* magnet_from_info called on its own
CallMagnet ==
    /\ ~result.done
    /\ result' = [done |-> TRUE,
                  magnet |-> magnet_from_info(args.torrent_dict, args.infohash,
                                              args.display_name)]
    /\ UNCHANGED <<decVars, loadVars, args>>

\* match_movie_to_torrent called on its own
CallMatch ==
    /\ ~result.done
    /\ result' = [done |-> TRUE,
                  match |-> match_movie_to_torrent(args.name, args.torrents)]
    /\ UNCHANGED <<decVars, loadVars, args>>

----------------------------------------------------------------------------
(* Specifications *)

DecoderIdle ==
    /\ data = <<>>
    /\ i = 0
    /\ capture_info = FALSE
    /\ stack = <<>>
    /\ st = "idle"
    /\ err = ""
    /\ out = NoOut
    /\ ret = NoRet
    /\ spans = <<>>

LoaderIdle ==
    /\ pc = "idle"
    /\ batch = <<>>
    /\ index = <<>>
    /\ warnings = <<>>
    /\ decoded = <<>>

NoCall ==
    /\ args = <<>>
    /\ result = [done |-> FALSE]

\* _bdecode(data, i, capture_info) on any buffer, from any offset
InitDecode ==
    /\ data \in ShortBuffers \cup TorrentCorpus
    /\ i \in 0 .. Len(data)
    /\ capture_info \in BOOLEAN
    /\ stack = <<>>
    /\ st = "run"
    /\ err = ""
    /\ out = NoOut
    /\ ret = NoRet
    /\ spans = <<>>
    /\ LoaderIdle
    /\ NoCall

NextDecode == BdStep

SpecDecode == InitDecode /\ [][NextDecode]_vars

\* a Python call runs until it returns or raises
FairDecode == SpecDecode /\ WF_vars(NextDecode)

\* load_torrents over the files of a directory
Init ==
    /\ DecoderIdle
    /\ pc = "loop"
    /\ batch = <<>>
    /\ index = <<>>
    /\ warnings = <<>>
    /\ decoded = <<>>
    /\ NoCall

Next ==
    \/ LtNextFile
    \/ pc = "try" /\ BdStep
    \/ LtAppend
    \/ LtWarn
    \/ LtReturn

Spec == Init /\ [][Next]_vars

InitMagnet ==
    /\ DecoderIdle
    /\ LoaderIdle
    /\ args \in MagnetInputs
    /\ result = [done |-> FALSE]

SpecMagnet == InitMagnet /\ [][CallMagnet]_vars

InitMatch ==
    /\ DecoderIdle
    /\ LoaderIdle
    /\ args \in MatchInputs
    /\ result = [done |-> FALSE]

SpecMatch == InitMatch /\ [][CallMatch]_vars

----------------------------------------------------------------------------
(* Properties *)

Last(q) == q[Len(q)]

\* _bdecode returned a dict for the file load_torrents is working on
DecodedDict == pc = "try" /\ st = "ok" /\ out.val.t = "dict"

\* the dict values stored under a direct key info of the top-level dict
TopInfoSpans == SelectSeq(spans, LAMBDA r : r.depth = 1 /\ r.k = INFO)

\* an info key met while capture was on
Captured(r) == r.k = INFO /\ r.cap

\* C1: when the top-level dict holds the key info, the infohash is the digest of
\* exactly data[start:end), the offsets between which the decoder read the value
\* stored under that top-level key; no nested info key supplies the bytes.
C1_HashesTopLevelInfoSpan ==
    (DecodedDict /\ DictHas(out.val.d, INFO)) =>
        /\ TopInfoSpans # <<>>
        /\ LET sp == Last(TopInfoSpans)
               bytes == SubSeq(data, sp.s + 1, sp.e)
               ih == decode_torrent_and_infohash(out, Stem(Len(batch))).infohash
           IN  /\ sp.e <= Len(data)
               /\ ih \in {SomeStr(BTIH \o Sha1Hex(bytes)),
                          SomeStr(BTMH \o <<"1", "2", "2", "0">> \o Sha256Hex(bytes))}

\* C1 witness: a nested info key was read before the top-level one
C1_NestedBeforeTopLevel ==
    /\ DecodedDict
    /\ TopInfoSpans # <<>>
    /\ \E x \in 1 .. Len(spans) :
        Captured(spans[x]) /\ spans[x].depth > 1 /\ spans[x].e <= Last(TopInfoSpans).s

\* C4: with a captured span the infohash is btmh:1220 + SHA-256 exactly when info is
\* a dict whose "meta version" is the integer 2, and btih: + SHA-1 otherwise;
\* without a captured span there is no infohash.
C4_VersionTag ==
    DecodedDict =>
        LET ih == decode_torrent_and_infohash(out, Stem(Len(batch))).infohash
            info == DictGet(out.val.d, INFO)
            modern == /\ info.t = "dict"
                      /\ \E x \in 1 .. Len(info.d) :
                            info.d[x] = [k |-> kMetaVersion, v |-> IntV(2)]
        IN  IF ~out.info.some THEN ih = NoneStr
            ELSE IF modern
            THEN ih = SomeStr(BTMH \o <<"1", "2", "2", "0">> \o Sha256Hex(out.info.b))
            ELSE ih = SomeStr(BTIH \o Sha1Hex(out.info.b))

\* C4 witness: a v2 info dict that also holds pieces was hashed
C4_ModernWithPieces ==
    /\ DecodedDict
    /\ out.info.some
    /\ DictGet(out.val.d, INFO).t = "dict"
    /\ DictGet(DictGet(out.val.d, INFO).d, kMetaVersion) = IntV(2)
    /\ DictHas(DictGet(out.val.d, INFO).d, kPieces)

\* a occurs in b at some position
OccursIn(a, b) ==
    \E p \in 1 .. (Len(b) - Len(a) + 1) : \A x \in 1 .. Len(a) : b[p + x - 1] = a[x]

SameIgnoringCase(a, b) ==
    Len(a) = Len(b) /\ \A x \in 1 .. Len(a) : LowerChar(a[x]) = LowerChar(b[x])

\* C5: the match is the first record whose non-empty display name equals the
\* directory name ignoring case; failing that the first whose non-empty display name
\* contains or is contained in it; failing that the first with a file name that
\* contains it; failing that none.
C5_TierPrecedence ==
    result.done =>
        LET ts == args.torrents
            dir == Lower(args.name)
            T1 == {x \in 1 .. Len(ts) :
                    ts[x].display_name # <<>> /\ SameIgnoringCase(ts[x].display_name, args.name)}
            T2 == {x \in 1 .. Len(ts) :
                    /\ ts[x].display_name # <<>>
                    /\ \/ OccursIn(Lower(ts[x].display_name), dir)
                       \/ OccursIn(dir, Lower(ts[x].display_name))}
            T3 == {x \in 1 .. Len(ts) : \E f \in ts[x].files : OccursIn(dir, Lower(f))}
        IN  IF T1 # {} THEN result.match = Match(ts[MinOf(T1)])
            ELSE IF T2 # {} THEN result.match = Match(ts[MinOf(T2)])
            ELSE IF T3 # {} THEN result.match = Match(ts[MinOf(T3)])
            ELSE result.match = NoMatch

\* C5 witness: the second record matched exactly though the first one contains the name
C5_ExactAfterContaining ==
    /\ result.done
    /\ result.match.some
    /\ result.match.t.path = 2
    /\ Lower(result.match.t.display_name) = Lower(args.name)
    /\ OccursIn(Lower(args.name), Lower(args.torrents[1].display_name))

\* C6: torrent_file_list raises on no dict the decoder can produce.
C6_FileListNeverRaises ==
    DecodedDict => ~torrent_file_list(out.val.d).raised

\* C7: the records are those of exactly the files that decoded, in the order the
\* files came; the files that did not decode are the ones warned about; every file
\* found has been dealt with when the loop asks for the next one.
C7_OneRecordPerDecodedFile ==
    /\ Len(decoded) = Len(index) + Len(warnings)
    /\ pc \in {"loop", "done"} => Len(decoded) = Len(batch)
    /\ \A x, y \in 1 .. Len(index) : x < y => index[x].path < index[y].path
    /\ {index[x].path : x \in 1 .. Len(index)} = {n \in 1 .. Len(decoded) : decoded[n]}
    /\ {warnings[x] : x \in 1 .. Len(warnings)} = {n \in 1 .. Len(decoded) : ~decoded[n]}

\* the parameters of a magnet string, and the name of one
Params(m) == SplitOn(SubSeq(m, Len(MAGNET) + 1, Len(m)), "&")
ParamKey(q) == SubSeq(q, 1, IndexFrom(q, "=", 0))
TrParams(m) == SelectSeq(Params(m), LAMBDA q : ParamKey(q) = <<"t", "r">>)

\* the tracker texts in the order magnet_from_info meets them
TrackerTexts(d) ==
    LET ann == DictGet(d, kAnnounce)
        lst == DictGet(d, kAnnounceList)
        leaves == IF lst.t = "list" THEN FlattenTrackers(lst.l) ELSE <<>>
    IN  (IF ann.t = "bytes" THEN <<DecodeIgnore(ann.b)>> ELSE <<>>)
        \o [x \in 1 .. Len(leaves) |-> DecodeIgnore(leaves[x].b)]

\* C2: no tracker text has two tr parameters, announce and announce-list taken
\* together, and the tr parameters come in the order of first occurrence.
C2_TrackersOnce ==
    (result.done /\ result.magnet.some) =>
        LET trs == TrParams(result.magnet.s)
            src == TrackerTexts(args.torrent_dict)
            first(q) == MinOf({x \in 1 .. Len(src) :
                                <<"t", "r", "=">> \o QuoteDefault(src[x]) = q})
        IN  /\ \A x, y \in 1 .. Len(trs) : x # y => trs[x] # trs[y]
            /\ \A x, y \in 1 .. Len(trs) : x < y => first(trs[x]) < first(trs[y])

\* C8: no magnet without an infohash tagged btih or btmh; otherwise the parameters
\* are one xt (urn:btih:<hex> or urn:btmh:1220<hex>), then dn exactly when the
\* display name is not empty, then only tr parameters.
C8_ParameterOrder ==
    result.done =>
        LET h == args.infohash
            legacy == h.some /\ StartsWith(h.s, BTIH)
            modern == h.some /\ StartsWith(h.s, BTMH)
            nDn == IF args.display_name # <<>> THEN 1 ELSE 0
        IN  IF ~(legacy \/ modern) THEN result.magnet = NoneStr
            ELSE /\ result.magnet.some
                 /\ StartsWith(result.magnet.s, MAGNET)
                 /\ LET ps == Params(result.magnet.s)
                    IN  /\ Len(ps) >= 1 + nDn
                        /\ ps[1] = <<"x", "t", "=">> \o URN
                                   \o (IF legacy THEN BTIH ELSE BTMH)
                                   \o SubSeq(h.s, 6, Len(h.s))
                        /\ modern => StartsWith(SubSeq(h.s, 6, Len(h.s)), <<"1", "2", "2", "0">>)
                        /\ nDn = 1 => ParamKey(ps[2]) = <<"d", "n">>
                        /\ \A x \in (2 + nDn) .. Len(ps) : ParamKey(ps[x]) = <<"t", "r">>

\* C8 witness: a magnet with xt, dn and two trackers
C8_FullMagnet ==
    /\ result.done
    /\ result.magnet.some
    /\ args.display_name # <<>>
    /\ Len(TrParams(result.magnet.s)) >= 2

\* C3: a byte string is returned whole: as long as its declared length, and
\* ending inside the buffer.
C3_ByteStringWhole ==
    ret.val.t = "bytes" =>
        /\ Len(ret.val.b) = PyInt(Slice(data, ret.start, IndexFrom(data, ":", ret.start))).n
        /\ ret.next <= Len(data)

\* the call at depth k is still running after the step
SameFrame(k) == k <= Len(stack') /\ stack'[k].start = stack[k].start

\* C9 as claimed: once a list or dict call holds a span, nothing replaces it.
C9_FirstSpanKept ==
    [][\A k \in 1 .. Len(stack) :
        (SameFrame(k) /\ stack[k].cap /\ stack[k].info_slice.some)
            => stack'[k].info_slice = stack[k].info_slice]_vars

\* the step stored a value under a direct key info of the capturing dict at depth k
StoredInfoAt(k) ==
    /\ Len(spans') = Len(spans) + 1
    /\ Last(spans').depth = k
    /\ Captured(Last(spans'))

\* C9 amended: a value stored under a direct key info of a capturing dict sets
\* that dict's span to the value's own offsets, whatever was captured before; any
\* other step leaves a span that is held untouched; a call that holds none takes
\* the span of the list or dict that returns to it, unchanged; and the outermost
\* call returns the span it holds.
C9_DirectKeyReplaces ==
    [][/\ \A k \in 1 .. Len(stack) :
            SameFrame(k) =>
                IF StoredInfoAt(k)
                THEN stack'[k].info_slice =
                        SomeSlice(Slice(data, Last(spans').s, Last(spans').e))
                ELSE IF stack[k].info_slice.some
                THEN stack'[k].info_slice = stack[k].info_slice
                ELSE IF k = Len(stack') /\ Len(stack) = k + 1
                THEN stack'[k].info_slice = stack[k + 1].info_slice
                ELSE stack'[k].info_slice = NoSlice
       /\ (st = "run" /\ st' = "ok" /\ stack # <<>>) => out'.info = stack[1].info_slice
      ]_vars

\* C9 witness: a nested info key was captured, then a direct one, whose span is returned
C9_DirectAfterNested ==
    /\ st = "ok"
    /\ capture_info
    /\ \E x, y \in 1 .. Len(spans) :
        /\ Captured(spans[x]) /\ spans[x].depth = 2
        /\ Captured(spans[y]) /\ spans[y].depth = 1
        /\ spans[x].e <= spans[y].s
        /\ out.info = SomeSlice(SubSeq(data, spans[y].s + 1, spans[y].e))

\* C10: every call returns past the offset it started at, the decode ends with a
\* value or an error, and the end of the buffer inside an open list or dict ends
\* in an error.
C10_Terminates ==
    /\ [](ret.next > ret.start)
    /\ [][(st = "run" /\ stack # <<>> /\ i >= Len(data)) => st' = "err"]_vars
    /\ <>(st \in {"ok", "err"})

\* C10 witness: the buffer ended inside an open list or dict, and the decode raised
C10_EndInsideContainer ==
    /\ st = "err"
    /\ err = "BencodeError"
    /\ stack # <<>>
    /\ i >= Len(data)

====
